---- MODULE Spec2Model ----
(***************************************************************************)
(* Model of awsxray-exporter (src/src/index.ts): a poll loop that reads    *)
(* trace summaries from X-Ray page by page, fetches the traces of every    *)
(* page in batches of at most five identifiers and forwards each segment   *)
(* document to an OpenTelemetry collector as one UDP datagram.             *)
(*                                                                         *)
(* One action is one run-to-completion turn of the Node.js event loop:     *)
(* module start-up, the arrival (or failure) of a page the loop awaits,    *)
(* the expiry of the inter-cycle timer, and the SIGTERM handler.           *)
(***************************************************************************)
EXTENDS Integers, Sequences, FiniteSets, TLC

VARIABLES
  env,            \* process.env: OTEL_COLLECTOR_URL, POLLING_INTERVAL_SECONDS
  proc,           \* "boot" | "failed" | "running" | "exited"
  pc,             \* where main() is suspended: "none" | "awaitSummary" | "awaitBatch" | "sleep"
  client,         \* XRayClient handle: "none" | "open" | "destroyed"
  dgramClient,    \* UDP socket: "none" | "open" | "closed"
  sigterm,        \* the SIGTERM handler has run
  socketCloses,   \* number of dgramClient.close() calls
  clientDestroys, \* number of client.destroy() calls
  exitCode,       \* None, or Some(status) once process.exit ran
  summaryPages,   \* summary pages returned so far in the current cycle
  traceIds,       \* traceIds of the summary page being processed
  batchedTraceIds,\* chunks the batchArray generator has still to yield
  batch,          \* the chunk whose batch read is being drained
  batchCalls,     \* batch reads issued in the current cycle: [page, ids]
  batchPageNo,    \* pages the batch read being drained has returned
  batchMore,      \* the last batch page carried a NextToken
  lastTraces,     \* Traces of the batch page processed last in this cycle
  lastSent,       \* datagrams handed to the socket while processing it
  pending,        \* sends whose completion callback has not run yet
  sendErrorLogged,\* "Error sending trace to daemon:" was logged in the current cycle
  err,            \* what the cycle's catch block caught: "none" | "summaryRead" | "batchRead" | "parse"
  prevErr,        \* err of the cycle before the current one
  log,            \* console lines of the current cycle
  window          \* None, or Some of StartTime and EndTime of the current cycle's summary read

procVars   == <<env, proc, client, dgramClient, sigterm, socketCloses, clientDestroys, exitCode>>
cycleVars  == <<summaryPages, traceIds, batchedTraceIds, batch, batchCalls, batchPageNo, batchMore,
                lastTraces, lastSent, err, prevErr, log, sendErrorLogged, window>>
vars == <<env, proc, pc, client, dgramClient, sigterm, socketCloses, clientDestroys, exitCode,
          summaryPages, traceIds, batchedTraceIds, batch, batchCalls, batchPageNo, batchMore,
          lastTraces, lastSent, pending, sendErrorLogged, err, prevErr, log, window>>

(***************************************************************************)
(* Bounds of the model.                                                    *)
(***************************************************************************)
MaxSummaryPages == 2   \* pages one summary read returns at most
MaxPageIds == 6        \* TraceSummaries one summary page carries at most
MaxBatchPages == 2     \* pages one batch read returns at most
MaxTraces == 2         \* Traces one batch page carries at most
MaxSegs == 2           \* Segments the traces of one batch page carry at most, together
MaxPending == 2        \* completion callbacks the model keeps outstanding at most

(***************************************************************************)
(* Program constants.                                                      *)
(***************************************************************************)
BatchSize == 5
Port == 2000
MsPerSecond == 1000
DefaultInterval == 10000
Header == "{\"format\": \"json\", \"version\": 1}"

(***************************************************************************)
(* Optional values (JavaScript undefined): None, or Some(v).               *)
(***************************************************************************)
None == <<>>
Some(v) == <<v>>

Min(a, b) == IF a < b THEN a ELSE b

\* JavaScript truthiness of an optional string: undefined and "" are falsy.
TruthyStr(opt) == opt # None /\ opt[1] # ""

(***************************************************************************)
(* Inputs: what the environment and the X-Ray backend may hand over.       *)
(***************************************************************************)
CollectorUrls == {None, Some(""), Some("otel-collector")}

\* POLLING_INTERVAL_SECONDS: unset, empty, not a number, zero, negative, positive.
PollingSettings == {None, Some(""), Some("abc"), Some("0"), Some("-5"), Some("30")}

\* What new Date().getTime() returns, in milliseconds.
SampleClocks == {60000}
Clocks == {60000, 61500}

IdNames == <<"1-c", "1-b", "1-a">>

\* Two families of summaries: identifiers out of order and repeating (g = 1),
\* and every other summary without its Id (g = 2).
SummaryAt(g, i) ==
  IF g = 1 THEN [Id |-> Some(IdNames[((i - 1) % 3) + 1])]
  ELSE IF i % 2 = 1 THEN [Id |-> None]
  ELSE [Id |-> Some(IdNames[((i \div 2) % 3) + 1])]

\* The lengths of the pages: none, less than a chunk, a full chunk, the longest.
PageLengths == {0, 4, BatchSize, MaxPageIds}

\* The lists of the first family of these lengths, the longest of the second.
TraceSummaryLists ==
  { [i \in 1..n |-> SummaryAt(1, i)] : n \in PageLengths }
    \cup { [i \in 1..MaxPageIds |-> SummaryAt(2, i)] }

SummaryPageSet ==
  [TraceSummaries : {None} \cup {Some(l) : l \in TraceSummaryLists}, NextToken : BOOLEAN]

DocPlain    == "{\"id\":\"s1\"}"
DocFalse    == "{\"id\":\"s2\",\"inferred\":false}"
DocInferred == "{\"id\":\"s3\",\"inferred\":true}"
DocOne      == "{\"id\":\"s4\",\"inferred\":1}"
DocBad      == "{\"id\":\"s5\""
DocEmpty    == ""
Documents == {DocPlain, DocFalse, DocInferred, DocOne, DocBad, DocEmpty}

SeqsUpTo(S, n) == UNION { [1..k -> S] : k \in 0..n }

SegmentSet == [Document : {None} \cup {Some(d) : d \in Documents}]
SegmentLists == SeqsUpTo(SegmentSet, MaxSegs)

\* The batch page of n traces that carry the segments segs: owner[i] is the
\* trace of segs[i], and a trace without segments has Segments undefined
\* (bare) or empty.
BatchPageOf(n, segs, owner, bare) ==
  [Traces |->
     Some([t \in 1..n |->
            LET idx  == SelectSeq([i \in 1..Len(segs) |-> i], LAMBDA i : owner[i] = t)
                part == [j \in 1..Len(idx) |-> segs[idx[j]]]
            IN  [Segments |-> IF part = <<>> /\ bare THEN None ELSE Some(part)]]),
   NextToken |-> FALSE]

\* The segments are dealt to the traces in order.
InOrder(owner) == \A i \in 1..(Len(owner) - 1) : owner[i] <= owner[i + 1]

\* A summary read of one page of at most one summary.
ShortSummaryPageSet ==
  [TraceSummaries : {Some(l) : l \in {<<>>, <<SummaryAt(1, 1)>>}}, NextToken : {FALSE}]

\* Batch pages that take every path through the loop: no Traces, a trace
\* that is forwarded, a trace whose first Document does not parse.
TraceGood    == [Segments |-> Some(<<[Document |-> Some(DocPlain)], [Document |-> Some(DocInferred)]>>)]
TraceCorrupt == [Segments |-> Some(<<[Document |-> Some(DocBad)], [Document |-> Some(DocPlain)]>>)]
SampleBatchPageSet ==
  [Traces : {None, Some(<<TraceGood>>), Some(<<TraceCorrupt>>)}, NextToken : BOOLEAN]

(***************************************************************************)
(* Console lines.                                                          *)
(***************************************************************************)
LogPolling    == [ev |-> "Polling X-Ray for traces", n |-> 0]
LogNoTraceIds == [ev |-> "No trace IDs found", n |-> 0]
LogFound(n)   == [ev |-> "Found", n |-> n]
LogSent(n)    == [ev |-> "Sent", n |-> n]
LogError      == [ev |-> "Error fetching traces:", n |-> 0]
LogSigterm    == [ev |-> "Received SIGTERM, shutting down gracefully...", n |-> 0]

(***************************************************************************)
(* fetchTraces, line 27-29: the identifiers of one summary page.  A        *)
(* summary whose Id is undefined or empty contributes nothing.             *)
(***************************************************************************)
\* Variant: the first identifier of the page is lost.
TraceIdsOf_dropFirst(summaries) ==
  LET withId == SelectSeq(summaries, LAMBDA t : TruthyStr(t.Id))
  IN  [i \in 1..(Len(withId) - 1) |-> withId[i + 1].Id[1]]

TraceIdsOf(summaries) ==
  LET withId == SelectSeq(summaries, LAMBDA t : TruthyStr(t.Id))
  IN  [i \in 1..Len(withId) |-> withId[i].Id[1]]

\* Array.prototype.slice(from, to) on a 0-based array.
Slice(array, from, to) == SubSeq(array, from + 1, Min(to, Len(array)))

(***************************************************************************)
(* batchArray, line 37-41: the chunks the generator yields, in order.      *)
(***************************************************************************)
RECURSIVE batchFrom(_, _, _)
batchFrom(array, size, i) ==
  IF i < Len(array)
    THEN <<Slice(array, i, i + size)>> \o batchFrom(array, size, i + size)
    ELSE <<>>

\* Variant: the array is yielded as a single chunk, whatever its length.
batchArray_nocap(array, size) == IF array = <<>> THEN <<>> ELSE <<array>>

\* Variant: the loop test is i <= array.length, so an empty array yields an
\* empty chunk and a full last chunk is followed by an empty one.
RECURSIVE batchFrom_inclusive(_, _, _)
batchFrom_inclusive(array, size, i) ==
  IF i <= Len(array)
    THEN <<Slice(array, i, i + size)>> \o batchFrom_inclusive(array, size, i + size)
    ELSE <<>>

batchArray_inclusive(array, size) == batchFrom_inclusive(array, size, 0)

batchArray(array, size) == batchFrom(array, size, 0)

(***************************************************************************)
(* JSON.parse on the documents of the model: a SyntaxError, or the value   *)
(* of the parsed object's `inferred` property as a JSON literal            *)
(* ("undefined" when the property is missing).                             *)
(***************************************************************************)
JSONParse(doc) ==
  CASE doc = DocPlain    -> [error |-> FALSE, inferred |-> "undefined"]
    [] doc = DocFalse    -> [error |-> FALSE, inferred |-> "false"]
    [] doc = DocInferred -> [error |-> FALSE, inferred |-> "true"]
    [] doc = DocOne      -> [error |-> FALSE, inferred |-> "1"]
    [] OTHER             -> [error |-> TRUE,  inferred |-> "undefined"]

\* Variant: only the literal true counts (inferred === true).
Truthy_strict(v) == v = "true"

\* JavaScript truthiness of a JSON literal.
Truthy(v) == v \notin {"undefined", "false", "null", "0", "\"\""}

\* Variant: the header line is written without the blanks after ':' and ','.
Datagram_compact(doc, url) ==
  LET message == "{\"format\":\"json\",\"version\":1}" \o "\n" \o doc
  IN  [msg |-> message, offset |-> 0, length |-> Len(message), port |-> Port, address |-> url]

\* line 74-88: the datagram handed to dgramClient.send for one Document.
Datagram(doc, url) ==
  LET message == Header \o "\n" \o doc
  IN  [msg |-> message, offset |-> 0, length |-> Len(message), port |-> Port, address |-> url]

(***************************************************************************)
(* sendTracesToOtelUdp, line 66-90: Segments?.forEach.  done is what the   *)
(* forEach of the page has handed to the socket so far; the result is the  *)
(* datagrams handed to the socket, in order, and whether JSON.parse threw  *)
(* (which ends the forEach at that segment).                               *)
(***************************************************************************)
RECURSIVE SendSegments(_, _, _, _)
SendSegments(segs, i, url, done) ==
  IF i > Len(segs) THEN [sent |-> done, threw |-> FALSE]
  ELSE IF ~TruthyStr(segs[i].Document) THEN SendSegments(segs, i + 1, url, done)
  ELSE IF JSONParse(segs[i].Document[1]).error THEN [sent |-> done, threw |-> TRUE]
  ELSE IF Truthy(JSONParse(segs[i].Document[1]).inferred) THEN SendSegments(segs, i + 1, url, done)
  ELSE SendSegments(segs, i + 1, url, Append(done, Datagram(segs[i].Document[1], url)))

sendTracesToOtelUdp(traceData, url, done) ==
  IF traceData.Segments = None THEN [sent |-> done, threw |-> FALSE]
  ELSE SendSegments(traceData.Segments[1], 1, url, done)

\* line 54: traces.Traces?.forEach(sendTracesToOtelUdp)
RECURSIVE ForEachTrace(_, _, _, _)
ForEachTrace(traces, i, url, r) ==
  IF r.threw \/ i > Len(traces) THEN r
  ELSE ForEachTrace(traces, i + 1, url, sendTracesToOtelUdp(traces[i], url, r.sent))

ProcessBatchPage(page, url) ==
  IF page.Traces = None THEN [sent |-> <<>>, threw |-> FALSE]
  ELSE ForEachTrace(page.Traces[1], 1, url, [sent |-> <<>>, threw |-> FALSE])

(***************************************************************************)
(* Number() on the settings of the model: None stands for NaN.  undefined  *)
(* and a string that is no numeral give NaN, the empty string gives 0.     *)
(***************************************************************************)
Number(value) ==
  CASE value = None        -> None
    [] value = Some("")    -> Some(0)
    [] value = Some("0")   -> Some(0)
    [] value = Some("-5")  -> Some(-5)
    [] value = Some("30")  -> Some(30)
    [] OTHER               -> None

\* line 9-10: NaN * 1000 is NaN; NaN and 0 are falsy, every other product
\* is kept.
POLLING_INTERVAL ==
  LET n == Number(env.POLLING_INTERVAL_SECONDS)
  IN  IF n = None \/ n[1] * MsPerSecond = 0 THEN DefaultInterval ELSE n[1] * MsPerSecond

\* main, line 96: the delay of the timer that is armed while main sleeps.
timer == IF pc = "sleep" THEN Some(POLLING_INTERVAL) ELSE None

(***************************************************************************)
(* Initial state: the process has been spawned with some environment and   *)
(* no line of the module has run yet.                                      *)
(***************************************************************************)
InitFrom(envs) ==
  /\ env \in envs
  /\ proc = "boot"
  /\ pc = "none"
  /\ client = "none"
  /\ dgramClient = "none"
  /\ sigterm = FALSE
  /\ socketCloses = 0
  /\ clientDestroys = 0
  /\ exitCode = None
  /\ summaryPages = <<>>
  /\ traceIds = <<>>
  /\ batchedTraceIds = <<>>
  /\ batch = <<>>
  /\ batchCalls = <<>>
  /\ batchPageNo = 0
  /\ batchMore = FALSE
  /\ lastTraces = None
  /\ lastSent = <<>>
  /\ pending = 0
  /\ sendErrorLogged = FALSE
  /\ err = "none"
  /\ prevErr = "none"
  /\ log = <<>>
  /\ window = None

Init == InitFrom([OTEL_COLLECTOR_URL : CollectorUrls, POLLING_INTERVAL_SECONDS : {None}])

\* Every setting of the polling interval.
InitWindow == InitFrom([OTEL_COLLECTOR_URL : CollectorUrls, POLLING_INTERVAL_SECONDS : PollingSettings])

(***************************************************************************)
(* main, line 93-95, and fetchTraces, line 19-25: the top of the while     *)
(* loop up to the first await of fetchTraces, the request for the first    *)
(* summary page of the window that ends now.                               *)
(***************************************************************************)
StartCycle(now) ==
  /\ window' = Some([StartTime |-> now - POLLING_INTERVAL, EndTime |-> now])
  /\ pc' = "awaitSummary"
  /\ summaryPages' = <<>>
  /\ traceIds' = <<>>
  /\ batchedTraceIds' = <<>>
  /\ batch' = <<>>
  /\ batchCalls' = <<>>
  /\ batchPageNo' = 0
  /\ batchMore' = FALSE
  /\ lastTraces' = None
  /\ lastSent' = <<>>
  /\ err' = "none"
  /\ prevErr' = err
  /\ log' = <<LogPolling>>
  /\ sendErrorLogged' = FALSE

(***************************************************************************)
(* Module top level, line 9-16, 64, 101-108.                               *)
(***************************************************************************)
\* Variant: the setting is tested after the client and the socket have been
\* created.
StartupFails_late ==
  /\ proc = "boot"
  /\ ~TruthyStr(env.OTEL_COLLECTOR_URL)
  /\ proc' = "failed"
  /\ client' = "open"
  /\ dgramClient' = "open"
  /\ UNCHANGED <<env, pc, sigterm, socketCloses, clientDestroys, exitCode, pending>>
  /\ UNCHANGED cycleVars

StartupFails ==
  /\ proc = "boot"
  /\ ~TruthyStr(env.OTEL_COLLECTOR_URL)
  /\ proc' = "failed"
  /\ UNCHANGED <<env, pc, client, dgramClient, sigterm, socketCloses, clientDestroys, exitCode, pending>>
  /\ UNCHANGED cycleVars

Startup(now) ==
  /\ proc = "boot"
  /\ TruthyStr(env.OTEL_COLLECTOR_URL)
  /\ proc' = "running"
  /\ client' = "open"
  /\ dgramClient' = "open"
  /\ StartCycle(now)
  /\ UNCHANGED <<env, sigterm, socketCloses, clientDestroys, exitCode, pending>>

(***************************************************************************)
(* fetchTraces, line 59-61, then main, line 96: the catch block logs the   *)
(* error, fetchTraces returns and main arms the inter-cycle timer.         *)
(***************************************************************************)
\* Variant: the error is logged and thrown again, so fetchTraces and then
\* main reject and the while loop is left.
CatchError_rethrow(kind, lines) ==
  /\ err' = kind
  /\ log' = lines \o <<LogError>>
  /\ pc' = "rejected"

\* Variant: the count of the page at hand is logged before the error, as a
\* finally block around the batch reads would.
CatchError_sentAnyway(kind, lines) ==
  /\ err' = kind
  /\ log' = lines \o <<LogSent(Len(traceIds)), LogError>>
  /\ pc' = "sleep"

CatchError(kind, lines) ==
  /\ err' = kind
  /\ log' = lines \o <<LogError>>
  /\ pc' = "sleep"

(***************************************************************************)
(* fetchTraces, line 46-58: take the next chunk from the generator and     *)
(* issue its batch read; when the generator is exhausted log the page's    *)
(* count and ask for the next summary page, or leave the loop.             *)
(***************************************************************************)
\* Variant: only the first chunk of a page is read; when it is drained the
\* next summary page is requested and the other chunks are dropped.
NextBatch_firstChunkOnly(ids, chunks, page, pageNo, lines) ==
  IF chunks # <<>> /\ chunks = batchArray(ids, BatchSize)
    THEN /\ batch' = Head(chunks)
         /\ batchedTraceIds' = Tail(chunks)
         /\ batchCalls' = Append(batchCalls, [page |-> pageNo, ids |-> Head(chunks)])
         /\ batchPageNo' = 0
         /\ batchMore' = FALSE
         /\ log' = lines
         /\ pc' = "awaitBatch"
    ELSE /\ batch' = <<>>
         /\ batchedTraceIds' = <<>>
         /\ batchPageNo' = 0
         /\ batchMore' = FALSE
         /\ log' = Append(lines, LogSent(Len(ids)))
         /\ pc' = IF page.NextToken THEN "awaitSummary" ELSE "sleep"
         /\ UNCHANGED batchCalls

NextBatch(ids, chunks, page, pageNo, lines) ==
  IF chunks # <<>>
    THEN /\ batch' = Head(chunks)
         /\ batchedTraceIds' = Tail(chunks)
         /\ batchCalls' = Append(batchCalls, [page |-> pageNo, ids |-> Head(chunks)])
         /\ batchPageNo' = 0
         /\ batchMore' = FALSE
         /\ log' = lines
         /\ pc' = "awaitBatch"
    ELSE /\ batch' = <<>>
         /\ batchedTraceIds' = <<>>
         /\ batchPageNo' = 0
         /\ batchMore' = FALSE
         /\ log' = Append(lines, LogSent(Len(ids)))
         /\ pc' = IF page.NextToken THEN "awaitSummary" ELSE "sleep"
         /\ UNCHANGED batchCalls

\* line 23-46: a summary page arrives.
SummaryPageArrives(page) ==
  /\ proc = "running" /\ pc = "awaitSummary"
  /\ page.NextToken => Len(summaryPages) + 1 < MaxSummaryPages
  /\ summaryPages' = Append(summaryPages, page)
  /\ IF page.TraceSummaries = None
       THEN /\ log' = Append(log, LogNoTraceIds)
            /\ pc' = "sleep"
            /\ UNCHANGED <<traceIds, batchedTraceIds, batch, batchCalls, batchPageNo, batchMore>>
       ELSE LET ids == TraceIdsOf(page.TraceSummaries[1]) IN
            /\ traceIds' = ids
            /\ NextBatch(ids, batchArray(ids, BatchSize), page, Len(summaryPages) + 1,
                         Append(log, LogFound(Len(ids))))
  /\ UNCHANGED <<lastTraces, lastSent, pending, sendErrorLogged, err, prevErr, window>>
  /\ UNCHANGED procVars

\* Variant: the catch block swallows the error without logging it.
SummaryThrows_silent ==
  /\ proc = "running" /\ pc = "awaitSummary"
  /\ err' = "summaryRead"
  /\ pc' = "sleep"
  /\ UNCHANGED <<summaryPages, traceIds, batchedTraceIds, batch, batchCalls, batchPageNo, batchMore,
                 lastTraces, lastSent, pending, sendErrorLogged, prevErr, log, window>>
  /\ UNCHANGED procVars

\* line 23: the summary read rejects.
SummaryThrows ==
  /\ proc = "running" /\ pc = "awaitSummary"
  /\ CatchError("summaryRead", log)
  /\ UNCHANGED <<summaryPages, traceIds, batchedTraceIds, batch, batchCalls, batchPageNo, batchMore,
                 lastTraces, lastSent, pending, sendErrorLogged, prevErr, window>>
  /\ UNCHANGED procVars

\* line 48-57: a page of the batch read arrives.  Every datagram handed to
\* the socket leaves a completion callback outstanding; of more than
\* MaxPending the oldest have completed without an error before the page
\* arrived.
BatchPageArrives(page) ==
  /\ proc = "running" /\ pc = "awaitBatch"
  /\ page.NextToken => batchPageNo + 1 < MaxBatchPages
  /\ LET r == ProcessBatchPage(page, env.OTEL_COLLECTOR_URL[1])
         cur == summaryPages[Len(summaryPages)]
     IN
     /\ lastTraces' = page.Traces
     /\ lastSent' = r.sent
     /\ pending' = Min(pending + Len(r.sent), MaxPending)
     /\ IF r.threw
          THEN /\ CatchError("parse", log)
               /\ batchMore' = page.NextToken
               /\ UNCHANGED <<batch, batchedTraceIds, batchCalls, batchPageNo>>
          ELSE IF page.NextToken
            THEN /\ batchPageNo' = batchPageNo + 1
                 /\ batchMore' = TRUE
                 /\ UNCHANGED <<batch, batchedTraceIds, batchCalls, log, pc, err>>
            ELSE /\ NextBatch(traceIds, batchedTraceIds, cur, Len(summaryPages), log)
                 /\ UNCHANGED err
  /\ UNCHANGED <<summaryPages, traceIds, sendErrorLogged, prevErr, window>>
  /\ UNCHANGED procVars

\* line 48: the batch read rejects.
BatchThrows ==
  /\ proc = "running" /\ pc = "awaitBatch"
  /\ CatchError("batchRead", log)
  /\ UNCHANGED <<summaryPages, traceIds, batchedTraceIds, batch, batchCalls, batchPageNo,
                 batchMore, lastTraces, lastSent, pending, sendErrorLogged, prevErr, window>>
  /\ UNCHANGED procVars

\* Variant: the next cycle starts only when every completion callback has run.
TimerFires_drain(now) ==
  /\ proc = "running" /\ pc = "sleep"
  /\ pending = 0
  /\ StartCycle(now)
  /\ UNCHANGED pending
  /\ UNCHANGED procVars

\* Variant: the cycles are started by an interval timer, whether or not the
\* cycle before has ended.
TimerFires_interval(now) ==
  /\ proc = "running"
  /\ StartCycle(now)
  /\ UNCHANGED pending
  /\ UNCHANGED procVars

\* main, line 96 and 93-95: the timer expires and the next cycle starts.
TimerFires(now) ==
  /\ proc = "running" /\ pc = "sleep"
  /\ StartCycle(now)
  /\ UNCHANGED pending
  /\ UNCHANGED procVars

(***************************************************************************)
(* The completion callback of dgramClient.send, line 83-87: an error is    *)
(* written to the console and nothing else happens.                        *)
(***************************************************************************)
\* Variant: on an error the callback hands the datagram to the socket again.
SendCallback_retry(error) ==
  /\ proc = "running"
  /\ pending > 0
  /\ pending' = IF error THEN pending ELSE pending - 1
  /\ sendErrorLogged' = (sendErrorLogged \/ error)
  /\ UNCHANGED <<pc, summaryPages, traceIds, batchedTraceIds, batch, batchCalls, batchPageNo,
                 batchMore, lastTraces, lastSent, err, prevErr, log, window>>
  /\ UNCHANGED procVars

SendCallback(error) ==
  /\ proc = "running"
  /\ pending > 0
  /\ pending' = pending - 1
  /\ sendErrorLogged' = (sendErrorLogged \/ error)
  /\ UNCHANGED <<pc, summaryPages, traceIds, batchedTraceIds, batch, batchCalls, batchPageNo,
                 batchMore, lastTraces, lastSent, err, prevErr, log, window>>
  /\ UNCHANGED procVars

(***************************************************************************)
(* The SIGTERM handler, line 101-106.  process.exit ends the process       *)
(* inside the handler: whatever main() was awaiting is never resumed.      *)
(***************************************************************************)
\* Variant: the handler releases the handles but does not call process.exit.
Sigterm_noExit ==
  /\ proc = "running"
  /\ ~sigterm
  /\ sigterm' = TRUE
  /\ log' = Append(log, LogSigterm)
  /\ dgramClient' = "closed"
  /\ socketCloses' = socketCloses + 1
  /\ client' = "destroyed"
  /\ clientDestroys' = clientDestroys + 1
  /\ UNCHANGED <<env, proc, exitCode, pc, summaryPages, traceIds, batchedTraceIds, batch, batchCalls,
                 batchPageNo, batchMore, lastTraces, lastSent, pending, sendErrorLogged,
                 err, prevErr, window>>

\* Variant: the handler closes the socket and exits without client.destroy().
Sigterm_leak ==
  /\ proc = "running"
  /\ sigterm' = TRUE
  /\ log' = Append(log, LogSigterm)
  /\ dgramClient' = "closed"
  /\ socketCloses' = socketCloses + 1
  /\ exitCode' = Some(0)
  /\ proc' = "exited"
  /\ UNCHANGED <<env, client, clientDestroys, pc, summaryPages, traceIds, batchedTraceIds, batch,
                 batchCalls, batchPageNo, batchMore, lastTraces, lastSent, pending,
                 sendErrorLogged, err, prevErr, window>>

Sigterm ==
  /\ proc = "running"
  /\ sigterm' = TRUE
  /\ log' = Append(log, LogSigterm)
  /\ dgramClient' = "closed"
  /\ socketCloses' = socketCloses + 1
  /\ client' = "destroyed"
  /\ clientDestroys' = clientDestroys + 1
  /\ exitCode' = Some(0)
  /\ proc' = "exited"
  /\ UNCHANGED <<env, pc, summaryPages, traceIds, batchedTraceIds, batch, batchCalls,
                 batchPageNo, batchMore, lastTraces, lastSent, pending, sendErrorLogged,
                 err, prevErr, window>>

(***************************************************************************)
(* What the backend answers to the read the loop awaits.  Spec takes every *)
(* summary read of the bounds, with batch pages that take every path       *)
(* through the loop.                                                       *)
(***************************************************************************)
SummaryRead ==
  /\ pc = "awaitSummary"
  /\ \E page \in SummaryPageSet : SummaryPageArrives(page)

BatchRead ==
  /\ pc = "awaitBatch"
  /\ \E page \in SampleBatchPageSet : BatchPageArrives(page)

\* The transport reports the outcome of a send: delivered, or an error.
SendCompletes == \E error \in BOOLEAN : SendCallback(error)

\* The module is loaded, the timer expires: at the sample clock.
Start == \E now \in SampleClocks : Startup(now)
Wake == \E now \in SampleClocks : TimerFires(now)

Next ==
  \/ StartupFails
  \/ Start
  \/ SummaryRead
  \/ SummaryThrows
  \/ BatchRead
  \/ BatchThrows
  \/ SendCompletes
  \/ Wake
  \/ Sigterm

Spec == Init /\ [][Next]_vars

(***************************************************************************)
(* SpecCodec: the same loop with short summary reads and every batch page  *)
(* of at most MaxTraces traces and MaxSegs segments.                       *)
(***************************************************************************)
ShortSummaryRead ==
  /\ pc = "awaitSummary"
  /\ \E page \in ShortSummaryPageSet : SummaryPageArrives(page)

AnyBatchRead ==
  /\ pc = "awaitBatch"
  /\ \/ BatchPageArrives([Traces |-> None, NextToken |-> FALSE])
     \/ \E n \in 0..MaxTraces, segs \in SegmentLists, bare \in BOOLEAN :
          \E owner \in [1..Len(segs) -> 1..n] :
            InOrder(owner) /\ BatchPageArrives(BatchPageOf(n, segs, owner, bare))

NextCodec ==
  \/ StartupFails
  \/ Start
  \/ ShortSummaryRead
  \/ SummaryThrows
  \/ AnyBatchRead
  \/ BatchThrows
  \/ SendCompletes
  \/ Wake
  \/ Sigterm

SpecCodec == Init /\ [][NextCodec]_vars

(***************************************************************************)
(* SpecWindow: the same loop under every setting of the polling interval   *)
(* and more than one clock reading, with short summary reads.              *)
(***************************************************************************)
StartAnyTime == \E now \in Clocks : Startup(now)
WakeAnyTime == \E now \in Clocks : TimerFires(now)

NextWindow ==
  \/ StartupFails
  \/ StartAnyTime
  \/ ShortSummaryRead
  \/ SummaryThrows
  \/ BatchRead
  \/ BatchThrows
  \/ SendCompletes
  \/ WakeAnyTime
  \/ Sigterm

SpecWindow == InitWindow /\ [][NextWindow]_vars

(***************************************************************************)
(* FairSpec: the event loop runs every callback that is due.  Start-up     *)
(* runs, a page the loop awaits arrives or its read rejects (the SDK's     *)
(* reads settle), and an armed timer expires.  Nothing obliges a SIGTERM   *)
(* to arrive, and nothing obliges the transport to report the outcome of   *)
(* a send: the destination may not respond.                                *)
(***************************************************************************)
Fairness ==
  /\ WF_vars(Start)
  /\ WF_vars(StartupFails)
  /\ WF_vars(SummaryRead \/ SummaryThrows)
  /\ WF_vars(BatchRead \/ BatchThrows)
  /\ WF_vars(Wake)

FairSpec == Spec /\ Fairness

(***************************************************************************)
(* Vocabulary of the properties.                                           *)
(***************************************************************************)
RECURSIVE Flatten(_)
Flatten(ss) == IF ss = <<>> THEN <<>> ELSE Head(ss) \o Flatten(Tail(ss))

CeilDiv(n, d) == (n + d - 1) \div d

\* The identifiers a summary page returned, in the order it returned them.
RECURSIVE IdsReturned(_)
IdsReturned(summaries) ==
  IF summaries = <<>> THEN <<>>
  ELSE IF Head(summaries).Id \in {None, Some("")} THEN IdsReturned(Tail(summaries))
  ELSE <<Head(summaries).Id[1]>> \o IdsReturned(Tail(summaries))

PageIds(k) ==
  IF summaryPages[k].TraceSummaries = None THEN <<>>
  ELSE IdsReturned(summaryPages[k].TraceSummaries[1])

CycleIds == Flatten([k \in 1..Len(summaryPages) |-> PageIds(k)])

\* The identifier lists of the batch reads issued for summary page k, in order.
CallsOfPage(k) ==
  LET calls == SelectSeq(batchCalls, LAMBDA c : c.page = k)
  IN  [i \in 1..Len(calls) |-> calls[i].ids]

AllCalls == [i \in 1..Len(batchCalls) |-> batchCalls[i].ids]

IsPrefix(s, t) == Len(s) <= Len(t) /\ s = SubSeq(t, 1, Len(s))

\* The cycle's work has ended without any error.
CycleComplete == pc = "sleep" /\ err = "none"

\* Every batch read for summary page k has been issued and drained.
PageDone(k) ==
  \/ k < Len(summaryPages)
  \/ k = Len(summaryPages) /\ pc \in {"awaitSummary", "sleep"} /\ err \in {"none", "summaryRead"}

(***************************************************************************)
(* C1 as stated: when a cycle has completed, the batch reads of the cycle  *)
(* number ceil(N/5) for the N identifiers of all its summary pages, each   *)
(* carries at most 5 identifiers and together they carry the identifiers   *)
(* of the cycle in order.                                                  *)
(***************************************************************************)
C1_ChunksAcrossPages ==
  CycleComplete =>
    /\ Len(batchCalls) = CeilDiv(Len(CycleIds), BatchSize)
    /\ \A i \in 1..Len(batchCalls) : Len(batchCalls[i].ids) <= BatchSize
    /\ Flatten(AllCalls) = CycleIds

(***************************************************************************)
(* C1 amended: chunking is per summary page.  The batch reads issued for   *)
(* a page carry between 1 and 5 identifiers of that page only, all but the *)
(* last exactly 5, and together a prefix of the page's identifiers in      *)
(* order; once the page is done they number ceil(n/5) for its n            *)
(* identifiers and carry all of them.  Batch reads are issued in page      *)
(* order.                                                                  *)
(***************************************************************************)
C1_ChunksPerPage ==
  /\ \A i \in 1..Len(batchCalls) :
       /\ batchCalls[i].page \in 1..Len(summaryPages)
       /\ Len(batchCalls[i].ids) \in 1..BatchSize
       /\ i > 1 => batchCalls[i - 1].page <= batchCalls[i].page
  /\ \A k \in 1..Len(summaryPages) :
       LET calls == CallsOfPage(k) IN
       /\ IsPrefix(Flatten(calls), PageIds(k))
       /\ \A i \in 1..(Len(calls) - 1) : Len(calls[i]) = BatchSize
       /\ PageDone(k) =>
            /\ Len(calls) = CeilDiv(Len(PageIds(k)), BatchSize)
            /\ Flatten(calls) = PageIds(k)

\* Two pages are done, the first of MaxPageIds identifiers read in chunks of 5 and 1.
C1_Witness ==
  /\ CycleComplete
  /\ Len(summaryPages) = 2
  /\ Len(PageIds(1)) = MaxPageIds
  /\ Len(PageIds(2)) = 3
  /\ Len(batchCalls) = 3

(***************************************************************************)
(* C2 as stated: 7 identifiers on 2 pages (4 + 3) are read by exactly two  *)
(* batch reads, of 5 and of 2 identifiers.                                 *)
(***************************************************************************)
ScenarioA ==
  /\ Len(summaryPages) = 2
  /\ Len(PageIds(1)) = 4
  /\ Len(PageIds(2)) = 3

C2_FiveAndTwo ==
  (ScenarioA /\ CycleComplete) =>
    /\ Len(batchCalls) = 2
    /\ Len(batchCalls[1].ids) = 5
    /\ Len(batchCalls[2].ids) = 2

(***************************************************************************)
(* C2 amended: from the arrival of the second page on, exactly two batch   *)
(* reads have been issued in the cycle, the first with the 4 identifiers   *)
(* of the first page and the second with the 3 of the second page.         *)
(***************************************************************************)
C2_FourAndThree ==
  ScenarioA =>
    /\ Len(batchCalls) = 2
    /\ batchCalls[1].ids = PageIds(1) /\ Len(batchCalls[1].ids) = 4
    /\ batchCalls[2].ids = PageIds(2) /\ Len(batchCalls[2].ids) = 3

C2_Witness == ScenarioA /\ CycleComplete /\ Len(batchCalls) = 2

(***************************************************************************)
(* C3 as stated: when the summary read rejects as its second page is       *)
(* requested, no identifier of the first page has been passed to a batch   *)
(* read, the error is logged and the cycle has ended.                      *)
(***************************************************************************)
ScenarioC == err = "summaryRead" /\ Len(summaryPages) = 1

C3_FirstPageDiscarded ==
  ScenarioC =>
    /\ batchCalls = <<>>
    /\ \E i \in 1..Len(log) : log[i] = LogError
    /\ pc = "sleep"

(***************************************************************************)
(* C3 amended: when the summary read rejects as its second page is         *)
(* requested, every identifier of the first page has already been passed   *)
(* to a batch read, the error is logged, the cycle has ended in the        *)
(* inter-cycle sleep, and the only steps from there are the start of the   *)
(* next cycle, the termination signal and completion callbacks of sends,   *)
(* which issue no batch read.                                              *)
(***************************************************************************)
C3_FirstPageAlreadyFetched ==
  /\ [](ScenarioC =>
          /\ Flatten(AllCalls) = PageIds(1)
          /\ \E i \in 1..Len(log) : log[i] = LogError
          /\ pc = "sleep")
  /\ [][(ScenarioC /\ ~sigterm) =>
          \/ sigterm' /\ pc' = pc /\ batchCalls' = batchCalls
          \/ pending' < pending /\ pc' = pc /\ batchCalls' = batchCalls /\ err' = err
          \/ pc' = "awaitSummary" /\ summaryPages' = <<>> /\ batchCalls' = <<>>]_vars

C3_Witness ==
  /\ ScenarioC
  /\ Len(PageIds(1)) = MaxPageIds
  /\ Len(batchCalls) = 2
  /\ pc = "sleep"

\* The segments of a batch page, trace after trace.
SegmentsOf(traces) ==
  Flatten([i \in 1..Len(traces) |->
             IF traces[i].Segments = None THEN <<>> ELSE traces[i].Segments[1]])

LastSegments == IF lastTraces = None THEN <<>> ELSE SegmentsOf(lastTraces[1])

\* The payload the collector expects for a Document.
Envelope(doc) == Header \o "\n" \o doc

NoDocument(seg) == seg.Document = None
\* The Document parses and its `inferred` is truthy.
InferredTruthy(seg) == seg.Document \in {Some(DocInferred), Some(DocOne)}
\* The Document parses and its `inferred` is absent or false.
Forwardable(seg) == seg.Document \in {Some(DocPlain), Some(DocFalse)}
\* The Document is not valid JSON.
Malformed(seg) == seg.Document = Some(DocBad)

Count(seq, P(_)) == Cardinality({i \in 1..Len(seq) : P(seq[i])})

CycleJustStarted == proc = "running" /\ pc = "awaitSummary" /\ summaryPages = <<>>

LastSummaryPage == summaryPages[Len(summaryPages)]

(***************************************************************************)
(* C4 as stated: a Document that is not valid JSON costs its own segment   *)
(* only.  Every forwardable segment of the batch page has its datagram,    *)
(* and the cycle is not ended by the parse failure.                        *)
(***************************************************************************)
C4_OnlyThatSegmentSkipped ==
  /\ err # "parse"
  /\ \A d \in {DocPlain, DocFalse} :
       Count(lastSent, LAMBDA m : m.msg = Envelope(d))
         = Count(LastSegments, LAMBDA seg : seg.Document = Some(d))

(***************************************************************************)
(* C5: an error of a summary or batch read is caught inside its cycle and  *)
(* leaves the loop in the inter-cycle sleep; from there the next cycle     *)
(* starts unless the termination signal arrives; without a termination     *)
(* signal cycles start infinitely often.                                   *)
(***************************************************************************)
C5_LoopSurvivesErrors ==
  /\ [](err # "none" => pc = "sleep")
  /\ (err \in {"summaryRead", "batchRead"} /\ proc = "running")
       ~> (sigterm \/ (CycleJustStarted /\ prevErr \in {"summaryRead", "batchRead"}))
  /\ []<>(proc = "failed" \/ sigterm \/ CycleJustStarted)

\* A cycle has started after a cycle whose batch read failed.
C5_Witness == CycleJustStarted /\ prevErr = "batchRead"

(***************************************************************************)
(* C6 as stated: a termination signal lets the cycle in flight run to      *)
(* completion, so the process is never gone with the loop still waiting    *)
(* for a summary page or a batch page.                                     *)
(***************************************************************************)
C6_CycleInFlightCompletes == proc = "exited" => pc = "sleep"

(***************************************************************************)
(* C6 amended: the termination signal ends the process at once.  The step  *)
(* of the signal leaves the cycle where it was waiting, and no step        *)
(* follows it: no further page is fetched, no further segment is           *)
(* processed, no cycle starts.                                             *)
(***************************************************************************)
C6_CycleInFlightAbandoned ==
  [][/\ ~sigterm
     /\ sigterm' => /\ proc' = "exited"
                    /\ UNCHANGED <<pc, summaryPages, traceIds, batchedTraceIds, batch, batchCalls,
                                   batchPageNo, lastTraces, lastSent, err>>]_vars

\* The signal has arrived while a batch read was awaited and chunks were left.
C6_Witness == sigterm /\ proc = "exited" /\ pc = "awaitBatch" /\ batchedTraceIds # <<>>

(***************************************************************************)
(* C7: a termination signal that arrives during the inter-cycle sleep      *)
(* closes the socket once, destroys the client once and exits with status  *)
(* 0, and no poll cycle starts after it.                                   *)
(***************************************************************************)
C7_ShutdownInSleep ==
  /\ []((sigterm /\ pc = "sleep") =>
          /\ proc = "exited" /\ exitCode = Some(0)
          /\ dgramClient = "closed" /\ socketCloses = 1
          /\ client = "destroyed" /\ clientDestroys = 1)
  /\ [](socketCloses <= 1 /\ clientDestroys <= 1)
  /\ [][sigterm => (pc' = pc /\ summaryPages' = summaryPages)]_vars

C7_Witness == sigterm /\ pc = "sleep" /\ proc = "exited" /\ socketCloses = 1

(***************************************************************************)
(* C8 as stated: a cycle in which no read throws ends only when the        *)
(* summary read and the batch reads have returned their last page.         *)
(***************************************************************************)
C8_FullDrain ==
  (pc = "sleep" /\ err \notin {"summaryRead", "batchRead"}) =>
    /\ ~LastSummaryPage.NextToken
    /\ ~batchMore

(***************************************************************************)
(* C9: while the summary pages of a cycle have returned no identifier, no  *)
(* batch read has been issued, the zero count has been logged, and the     *)
(* loop is either waiting for a further summary page or in the             *)
(* inter-cycle sleep.                                                      *)
(***************************************************************************)
ZeroIdentifiers == summaryPages # <<>> /\ CycleIds = <<>>

C9_NothingFound ==
  ZeroIdentifiers =>
    /\ batchCalls = <<>>
    /\ \E i \in 1..Len(log) : log[i] \in {LogNoTraceIds, LogFound(0)}
    /\ \/ pc = "sleep"
       \/ pc = "awaitSummary" /\ LastSummaryPage.NextToken

\* A cycle of two pages without identifiers has ended.
C9_Witness == ZeroIdentifiers /\ CycleComplete /\ Len(summaryPages) = 2 /\ proc = "running"

(***************************************************************************)
(* C10: a segment without Document and a segment whose Document parses     *)
(* with a truthy `inferred` get no datagram: the datagrams of a batch page *)
(* are at most as many as its other segments, and none carries the         *)
(* envelope of an inferred Document.                                       *)
(***************************************************************************)
C10_SkipRule ==
  /\ Len(lastSent) <= Count(LastSegments, LAMBDA seg : ~NoDocument(seg) /\ ~InferredTruthy(seg))
  /\ \A i \in 1..Len(lastSent) :
       lastSent[i].msg \notin {Envelope(DocInferred), Envelope(DocOne)}

\* A page of one segment without Document and one inferred segment was
\* processed and nothing was sent.
C10_Witness ==
  /\ lastTraces # None
  /\ Len(lastTraces[1]) = 2
  /\ Len(LastSegments) = 2
  /\ Count(LastSegments, NoDocument) = 1
  /\ LastSegments[2].Document = Some(DocOne)
  /\ lastSent = <<>>
  /\ CycleComplete

(***************************************************************************)
(* C11: when a batch page has been processed in a cycle without error,     *)
(* the datagrams handed to the socket are, in the order of the segments,   *)
(* exactly one for every segment whose Document parses with `inferred`     *)
(* absent or false; each goes to port 2000 of the configured host and      *)
(* carries the header line {"format": "json", "version": 1}, a newline     *)
(* and the Document string as it was received.                             *)
(***************************************************************************)
ForwardableSegments == SelectSeq(LastSegments, Forwardable)

C11_ForwardRule ==
  (lastTraces # None /\ err = "none") =>
    /\ Len(lastSent) = Len(ForwardableSegments)
    /\ \A i \in 1..Len(lastSent) :
         /\ lastSent[i].msg = "{\"format\": \"json\", \"version\": 1}\n" \o ForwardableSegments[i].Document[1]
         /\ lastSent[i].offset = 0
         /\ lastSent[i].length = Len(lastSent[i].msg)
         /\ lastSent[i].port = 2000
         /\ lastSent[i].address = env.OTEL_COLLECTOR_URL[1]

\* Two traces of one forwardable segment each, the second with
\* "inferred": false, were processed and two datagrams were sent.
C11_Witness ==
  /\ lastTraces # None
  /\ err = "none"
  /\ Len(lastTraces[1]) = 2
  /\ LastSegments = <<[Document |-> Some(DocPlain)], [Document |-> Some(DocFalse)]>>
  /\ lastTraces[1][1].Segments # None /\ Len(lastTraces[1][1].Segments[1]) = 1
  /\ Len(lastSent) = 2
  /\ pc = "sleep"

\* A completion callback runs in this step.
CallbackStep == pending' < pending \/ (~sendErrorLogged /\ sendErrorLogged')

(***************************************************************************)
(* C12: a step in which a completion callback runs, with or without an     *)
(* error, takes one callback off the outstanding ones and at most logs the *)
(* error.  It hands no datagram to the socket, it leaves the cycle where   *)
(* it was with its error state, its pages, its chunks and its batch reads  *)
(* untouched, and it leaves the process and its handles alone.             *)
(***************************************************************************)
C12_DeliveryFailureOnlyLogged ==
  [][CallbackStep =>
       /\ pending' = pending - 1
       /\ UNCHANGED <<pc, err, prevErr, summaryPages, traceIds, batchedTraceIds, batch,
                      batchCalls, batchPageNo, batchMore, lastTraces, lastSent, log>>
       /\ UNCHANGED procVars]_vars

\* A cycle of two summary pages and three batch reads has completed
\* without error although a send error was logged during it.
C12_Witness ==
  /\ sendErrorLogged
  /\ CycleComplete
  /\ Len(summaryPages) = 2
  /\ Len(batchCalls) = 3
  /\ log[Len(log)] = LogSent(Len(PageIds(2)))

\* The loop is at work on a cycle: it awaits a page of a read.
AtWork == pc \in {"awaitSummary", "awaitBatch"}

\* This step is the top of the while loop: a cycle starts.
CycleStarts == log' = <<LogPolling>> /\ log # <<LogPolling>>

(***************************************************************************)
(* C13: cycles do not overlap.  A cycle starts only at start-up or out of  *)
(* the inter-cycle sleep, never while the loop is at work on a cycle; the  *)
(* sleep is entered only by the step that ends the work of the cycle, and  *)
(* while the loop sleeps nothing is fetched and nothing is dispatched      *)
(* until the timer has expired.                                            *)
(***************************************************************************)
C13_NoOverlap ==
  /\ [][CycleStarts => (~AtWork /\ pc \in {"none", "sleep"} /\ pc' = "awaitSummary")]_vars
  /\ [][(pc # "sleep" /\ pc' = "sleep") => AtWork]_vars
  /\ [][(pc = "sleep" /\ ~CycleStarts) =>
          /\ pc' = "sleep"
          /\ UNCHANGED <<summaryPages, batchCalls, lastTraces, lastSent, window>>
          /\ pending' <= pending]_vars

\* A cycle has started after the cycle before had ended in the catch block
\* for a Document that does not parse.
C13_Witness == CycleJustStarted /\ prevErr = "parse" /\ ~sigterm

\* The required setting is undefined or the empty string.
NoCollectorUrl == ~TruthyStr(env.OTEL_COLLECTOR_URL)

(***************************************************************************)
(* C14: when OTEL_COLLECTOR_URL is absent or empty the process never gets  *)
(* past start-up: no client and no socket is ever created, no cycle        *)
(* starts, no summary read and no batch read is issued, no datagram is     *)
(* handed to a socket; and start-up does fail.                             *)
(***************************************************************************)
C14_StartupFatal ==
  /\ [](NoCollectorUrl =>
          /\ proc \in {"boot", "failed"}
          /\ client = "none" /\ dgramClient = "none"
          /\ pc = "none" /\ log = <<>> /\ window = None
          /\ summaryPages = <<>> /\ batchCalls = <<>>
          /\ lastSent = <<>> /\ pending = 0)
  /\ NoCollectorUrl ~> (proc = "failed")
  /\ [][proc = "failed" => proc' = "failed"]_vars

\* Start-up has failed on an empty setting.
C14_Witness == proc = "failed" /\ env.OTEL_COLLECTOR_URL = Some("") /\ dgramClient = "none"

(***************************************************************************)
(* C15 as stated: in every cycle, under every setting of                   *)
(* POLLING_INTERVAL_SECONDS, the window of the summary read starts before  *)
(* it ends, its length is the polling interval, the timer of the           *)
(* inter-cycle sleep is armed with the same interval, and the interval is  *)
(* 10 seconds when the setting is not given.                               *)
(***************************************************************************)
C15_WindowInvariant ==
  window # None =>
    /\ window[1].StartTime < window[1].EndTime
    /\ window[1].EndTime - window[1].StartTime = POLLING_INTERVAL
    /\ timer # None => timer[1] = window[1].EndTime - window[1].StartTime
    /\ env.POLLING_INTERVAL_SECONDS = None => POLLING_INTERVAL = 10 * MsPerSecond

(***************************************************************************)
(* C16: the loop does not wait for completion callbacks.  No step of the   *)
(* loop takes a callback off the outstanding ones; whenever the loop       *)
(* sleeps, the expiry of the timer is enabled, however many callbacks are  *)
(* outstanding; and from a state with callbacks outstanding a cycle        *)
(* starts again (unless the termination signal arrives) even if no         *)
(* callback ever runs.                                                     *)
(***************************************************************************)
C16_SendNotAwaited ==
  /\ [][pc' # pc => pending' >= pending]_vars
  /\ []((proc = "running" /\ pc = "sleep") => ENABLED Wake)
  /\ (proc = "running" /\ pending > 0) ~> (sigterm \/ CycleJustStarted)

\* A cycle has started while callbacks of sends of earlier cycles are
\* outstanding.
C16_Witness == CycleJustStarted /\ pending > 0 /\ ~sigterm /\ lastSent = <<>>

\* ids is a run of consecutive identifiers of summary page k.
RunOfPage(ids, k) ==
  \E from \in 0..Len(PageIds(k)) : ids = SubSeq(PageIds(k), from + 1, from + Len(ids))

(***************************************************************************)
(* C17: the cycle works page by page.  Once the summary page after page k  *)
(* has been requested, every identifier of page k has been passed to a     *)
(* batch read, in every state after that and so also when a later page or  *)
(* read fails; the step that requests the next summary page is the         *)
(* arrival of a batch page without NextToken when the chunks of the page   *)
(* are used up; and every batch read carries a run of identifiers of the   *)
(* one summary page it was issued for, which is the page being processed   *)
(* when it is issued.                                                      *)
(***************************************************************************)
C17_PageByPage ==
  /\ [](\A k \in 1..Len(summaryPages) :
          (k < Len(summaryPages) \/ pc = "awaitSummary") =>
             Flatten(CallsOfPage(k)) = PageIds(k))
  /\ [][(pc = "awaitBatch" /\ pc' = "awaitSummary" /\ ~CycleStarts) =>
          /\ batchedTraceIds = <<>>
          /\ ~batchMore'
          /\ summaryPages' = summaryPages]_vars
  /\ [](\A i \in 1..Len(batchCalls) : RunOfPage(batchCalls[i].ids, batchCalls[i].page))
  /\ [][Len(batchCalls') = Len(batchCalls) + 1 =>
          batchCalls'[Len(batchCalls')].page = Len(summaryPages')]_vars

\* The batch read of the second page has failed after the MaxPageIds identifiers of
\* the first page were read in two batch reads.
C17_Witness ==
  /\ err = "batchRead"
  /\ Len(summaryPages) = 2
  /\ Len(PageIds(1)) = MaxPageIds
  /\ Len(CallsOfPage(1)) = 2
  /\ Len(CallsOfPage(2)) = 1

(***************************************************************************)
(* C18: nothing is used after its release.  Once the socket is closed no   *)
(* datagram is handed to it and no batch page is processed; once the       *)
(* client is destroyed no summary read and no batch read is issued or      *)
(* continued; the socket is closed and the client destroyed only together  *)
(* with the exit of the process, in the one step of the signal handler,    *)
(* wherever the loop is waiting.                                           *)
(***************************************************************************)
C18_NoUseAfterRelease ==
  /\ [][dgramClient = "closed" =>
          UNCHANGED <<lastSent, lastTraces, pending, sendErrorLogged>>]_vars
  /\ [][client = "destroyed" =>
          UNCHANGED <<pc, summaryPages, batchCalls, batch, batchPageNo, window>>]_vars
  /\ []((dgramClient = "closed" \/ client = "destroyed") =>
          /\ dgramClient = "closed" /\ client = "destroyed"
          /\ proc = "exited" /\ exitCode = Some(0))
  /\ [][(dgramClient' # dgramClient /\ dgramClient = "open") =>
          (sigterm' /\ ~sigterm /\ proc' = "exited" /\ client' = "destroyed")]_vars

\* The signal has arrived between two pages of a batch read, after
\* datagrams were sent and with completion callbacks outstanding.
C18_Witness ==
  /\ proc = "exited"
  /\ dgramClient = "closed" /\ client = "destroyed"
  /\ pc = "awaitBatch" /\ batchPageNo = 1
  /\ lastSent # <<>>
  /\ pending > 0

\* The "Sent" lines and the "Found" lines of the cycle, in order.
SentLines == SelectSeq(log, LAMBDA l : l.ev = "Sent")
FoundLines == SelectSeq(log, LAMBDA l : l.ev = "Found")

\* The summary pages of the cycle whose batch reads have all been drained.
PagesReported ==
  {k \in 1..Len(summaryPages) : PageDone(k) /\ summaryPages[k].TraceSummaries # None}

(***************************************************************************)
(* C19: the i-th "Sent" line of a cycle carries the number of identifiers  *)
(* found on the i-th summary page, the number its "Found" line carries,    *)
(* whatever was handed to the socket; there is one "Sent" line for every   *)
(* page whose batch reads have all been drained and no other, so a page    *)
(* whose batch read or whose segment processing threw has none.            *)
(***************************************************************************)
C19_ReportedCounts ==
  /\ Len(SentLines) = Cardinality(PagesReported)
  /\ \A i \in 1..Len(SentLines) :
       /\ i \in PagesReported
       /\ SentLines[i].n = Len(PageIds(i))
       /\ SentLines[i].n = FoundLines[i].n
  /\ err \in {"batchRead", "parse"} =>
       /\ Len(SentLines) = Len(summaryPages) - 1
       /\ Len(FoundLines) = Len(summaryPages)

\* The first page of MaxPageIds identifiers was reported although a send error was
\* logged, and the second page, whose segment processing threw, was not.
C19_Witness ==
  /\ err = "parse"
  /\ Len(summaryPages) = 2
  /\ SentLines = <<LogSent(MaxPageIds)>>
  /\ Len(PageIds(2)) = 3
  /\ sendErrorLogged

====
